---- MODULE Spec2Model ----
(***************************************************************************)
(* A model of src/pythonYAML/grerit.py: the helm install/upgrade test      *)
(* driver.  The program is one sequential thread; pc is its call stack     *)
(* (the head is the statement about to run, labelled function:line).  The  *)
(* cluster and the external commands are the environment: every command's  *)
(* return code and every listing is chosen by the environment.             *)
(***************************************************************************)
EXTENDS Integers, Sequences, FiniteSets, TLC

\* ------------------------------------------------------------------ bounds
MaxPods == 2      \* longest pod listing the environment returns
MaxRows == 2      \* longest "kubectl get" listing the environment returns
MaxCount == 2     \* largest replica count in a listing
MaxStray == 2     \* releases left in the namespace before the run
MaxRetries == 3   \* largest retries argument tried besides the default

\* ------------------------------------------------- constants of the program
CounterDeployed == 20        \* helm_wait_for_deployed_release_to_appear
CounterNamespace == 60       \* wait_for_namespace_to_be_deleted
CounterPodsStart == 60       \* wait_for_all_pods_to_start
CounterPodsTerminate == 60   \* wait_for_all_pods_to_terminate
RetriesDefault == 20         \* wait_for_all_api_resources(retries=20)

ApplicationUnderTest == "application-under-test"
DependencyRelease == "dependency-release"
BaselineRelease == "chart-baseline-release"

VARIABLES
    args,                   \* parsed flags
    pc,                     \* call stack of labels function:line
    error,                  \* "none", or the exception that ended the run
    returncode,             \* proc.returncode of the last command
    namespace,              \* cluster: "absent", "active", "terminating"
    releases,               \* cluster: releases in the target namespace
    todo,                   \* helm_cleanup_namespace: releases still to delete
    name,                   \* release name argument of install / delete / upgrade
    expected_release_name,  \* helm_wait_for_deployed_release_to_appear
    api_resource,           \* wait_for_all_api_resources
    retries,                \* wait_for_all_api_resources
    counter,                \* the countdown of the running wait
    attempt,                \* wait_for_all_api_resources
    count,                  \* wait_for_all_api_resources
    retval,                 \* helm_release_exist_in_namespace's result
    response,               \* what the running wait's last listing returned
    log,                    \* history of the phase: <<command, argument,
                            \*   return code>>, cluster calls, waits begun
                            \*   and waits returned
    phases,                 \* history: phases begun
    wait,                   \* history: the wait begun last
    result,                 \* history: how that wait ended
    evals,                  \* history: its predicate evaluations
    sleeps                  \* history: its sleeps

cluster == <<namespace, releases>>
locals == <<todo, name, expected_release_name, api_resource, retries,
            counter, attempt, count, retval>>
waitvars == <<wait, result, evals, sleeps, response>>
vars == <<args, pc, error, returncode, namespace, releases, todo, name,
          expected_release_name, api_resource, retries, counter, attempt,
          count, retval, response, log, phases, wait, result, evals, sleeps>>

\* ----------------------------------------------------------- environment
StrayNames == <<"stray-a", "stray-b", "stray-c">>
Stray == {StrayNames[i] : i \in 1..MaxStray}

\* helm lists releases sorted by name
NameOrder == <<ApplicationUnderTest, BaselineRelease, DependencyRelease>>
                 \o StrayNames
Listing(S) == SelectSeq(NameOrder, LAMBDA n : n \in S)

SeqsUpTo(S, n) == UNION {[1..k -> S] : k \in 0..n}

\* a pod as list_namespaced_pod returns it: status.phase and
\* status.container_statuses (None, or the list of each container's ready)
None == [none |-> TRUE, list |-> <<>>]
List(l) == [none |-> FALSE, list |-> l]
Pod(phase, cs) == [phase |-> phase, container_statuses |-> cs]
Pods == {Pod("Running", List(<<TRUE>>)), Pod("Running", List(<<FALSE>>)),
         Pod("Running", List(<<>>)), Pod("Running", None),
         Pod("Pending", None)}
PodListings == SeqsUpTo(Pods, MaxPods)

\* "kubectl get <kind> --no-headers" rows, split into fields
\*   deployment: NAME READY(m/n)        replicaset: NAME DESIRED CURRENT READY
ResourceNames == <<"app", "worker", "cache", "proxy">>
Counts == {<<a, MaxCount>> : a \in 0..MaxCount} \cup {<<MaxCount, MaxCount - 1>>}
Row(kind, n, c) ==
    IF kind = "deployment" THEN <<n, <<c[1], c[2]>>>>
                           ELSE <<n, c[2], c[1], c[1]>>
RowListings(kind) ==
    UNION {{[i \in 1..k |-> Row(kind, ResourceNames[i], f[i])] :
               f \in [1..k -> Counts]} : k \in 0..MaxRows}

ReturnCodes == {0, 1}

\* ------------------------------------------------------------ control flow
Head1 == IF pc = <<>> THEN "" ELSE Head(pc)
Goto(label) == <<label>> \o Tail(pc)
Call(callee, back) == <<callee, back>> \o Tail(pc)
Return == Tail(pc)

\* mutant: the exception is caught in the frame that raised it
Unwind_OneFrame(stack) == Tail(stack)

\* an uncaught exception unwinds every frame: main() has no try/except
Unwind(stack) == <<>>

Raise(exception) ==
    /\ error' = exception
    /\ pc' = Unwind(pc)

\* mutant: the return code is never looked at
Failed_Never(rc) == FALSE

\* execute_command: "if proc.returncode != 0: raise ValueError"
Failed(rc) == rc # 0

\* execute_command(command), the command's effect on success being Success
execute_command(command, Success) ==
    \E rc \in ReturnCodes :
        /\ returncode' = rc
        /\ log' = Append(log, <<command[1], command[2], rc>>)
        /\ IF Failed(rc)
           THEN /\ Raise("CommandExecutionError")
                /\ UNCHANGED <<args, cluster, locals, waitvars, phases>>
           ELSE Success

\* mutant: a wait swallows the failure of its command and polls again
execute_poll_Retry(Success) ==
    \E rc \in ReturnCodes :
        /\ returncode' = rc
        /\ IF Failed(rc)
           THEN /\ evals' = evals + 1
                /\ UNCHANGED <<args, pc, error, cluster, locals, wait, result,
                               sleeps, response, log, phases>>
           ELSE Success

\* the same for the command a wait's predicate runs (kept out of the log)
execute_poll(Success) ==
    \E rc \in ReturnCodes :
        /\ returncode' = rc
        /\ IF Failed(rc)
           THEN /\ Raise("CommandExecutionError")
                /\ evals' = evals + 1
                /\ result' = "error"
                /\ UNCHANGED <<args, cluster, locals, wait, sleeps, response,
                               log, phases>>
           ELSE Success

\* mutant: the countdown never gives up
CanRetry_Always(c) == TRUE

\* mutant: the countdown stops one short
CanRetry_OffByOne(c) == c > 1

\* "if counter > 0" of the four countdown waits
CanRetry(c) == c > 0

\* ---------------------------------------------------------------- startup
Init ==
    /\ args \in [dependency_chart_archive : BOOLEAN,
                  skip_upgrade_test : BOOLEAN,
                  baseline_chart_version : BOOLEAN]
    /\ pc = <<"parse_args:148">>
    /\ error = "none"
    /\ returncode = 0
    /\ namespace \in {"absent", "active"}
    /\ releases \in IF namespace = "absent" THEN {{}} ELSE SUBSET Stray
    /\ todo = <<>>
    /\ name = ""
    /\ expected_release_name = ""
    /\ api_resource = ""
    /\ retries = 0
    /\ counter = 0
    /\ attempt = 0
    /\ count = 0
    /\ retval = FALSE
    /\ response = <<>>
    /\ log = <<>>
    /\ phases = <<>>
    /\ wait = "none"
    /\ result = "none"
    /\ evals = 0
    /\ sleeps = 0

\* mutant: the flags are not validated
ArgsInvalid_Never(a) == FALSE

\* "if (not args.baseline_chart_version) and (not args.skip_upgrade_test)"
ArgsInvalid(a) == (~a.baseline_chart_version) /\ (~a.skip_upgrade_test)

parse_args ==
    /\ Head1 = "parse_args:148"
    /\ IF ArgsInvalid(args)
       THEN Raise("ArgumentTypeError")
       ELSE pc' = <<"main:469">> /\ error' = error
    /\ UNCHANGED <<args, returncode, cluster, locals, waitvars, log, phases>>

BeginPhase(phase, callee, back) ==
    /\ phases' = Append(phases, phase)
    /\ log' = <<>>
    /\ pc' = Call(callee, back)
    /\ UNCHANGED <<args, error, returncode, cluster, locals, waitvars>>

\* mutant: the skip flag is ignored
RunUpgrade_Always(a) == TRUE

\* "if not args.skip_upgrade_test"
RunUpgrade(a) == ~a.skip_upgrade_test

main ==
    \/ /\ Head1 = "main:469"
       /\ execute_command(<<"helm inspect chart", "">>,
             /\ pc' = <<"main:581">>
             /\ UNCHANGED <<args, error, cluster, locals, waitvars, phases>>)
    \/ /\ Head1 = "main:581"
       /\ BeginPhase("Setup", "test_setup:492", "main:582")
    \/ /\ Head1 = "main:582"
       /\ BeginPhase("Install-Test", "test_install:525", "main:583")
    \/ /\ Head1 = "main:583"
       /\ IF RunUpgrade(args)
          THEN BeginPhase("Upgrade-Test", "test_upgrade:551", "main:585")
          ELSE /\ pc' = Goto("main:585")
               /\ UNCHANGED <<args, error, returncode, cluster, locals,
                              waitvars, log, phases>>
    \/ /\ Head1 = "main:585"
       /\ BeginPhase("Teardown", "test_teardown:510", "main:exit")
    \/ /\ Head1 = "main:exit"
       /\ pc' = Return
       /\ UNCHANGED <<args, error, returncode, cluster, locals, waitvars,
                      log, phases>>

\* ------------------------------------------------------------- helm calls
helm_cleanup_namespace ==
    \/ /\ Head1 = "helm_cleanup_namespace:195"
       /\ execute_command(<<"helm ls --all -q", "">>,
             /\ todo' = Listing(releases)
             /\ pc' = IF Listing(releases) = <<>>
                      THEN Return
                      ELSE Goto("helm_cleanup_namespace:199")
             /\ UNCHANGED <<args, error, cluster, name,
                            expected_release_name, api_resource, retries,
                            counter, attempt, count, retval, waitvars,
                            phases>>)
    \/ /\ Head1 = "helm_cleanup_namespace:199"
       /\ IF todo = <<>>
          THEN /\ pc' = Return
               /\ UNCHANGED <<todo, name>>
          ELSE /\ name' = Head(todo)
               /\ todo' = Tail(todo)
               /\ pc' = Call("helm_delete_release:207",
                             "helm_cleanup_namespace:199")
       /\ UNCHANGED <<args, error, returncode, cluster, expected_release_name,
                      api_resource, retries, counter, attempt, count, retval,
                      waitvars, log, phases>>

\* mutant: the uninstall acts on a release of another namespace
helm_delete_release_Elsewhere ==
    /\ Head1 = "helm_delete_release:207"
    /\ execute_command(<<"helm uninstall", name>>,
          /\ pc' = Return
          /\ UNCHANGED <<args, error, cluster, locals, waitvars, phases>>)

\* "helm uninstall" names no namespace: the release is looked up in the
\* current one, taken here to be the target namespace
helm_delete_release ==
    /\ Head1 = "helm_delete_release:207"
    /\ execute_command(<<"helm uninstall", name>>,
          /\ releases' = releases \ {name}
          /\ pc' = Return
          /\ UNCHANGED <<args, error, namespace, locals, waitvars, phases>>)

helm_list_releases ==
    /\ Head1 = "helm_list_releases:214"
    /\ execute_command(<<"helm ls --all", "">>,
          /\ pc' = Return
          /\ UNCHANGED <<args, error, cluster, locals, waitvars, phases>>)

\* bool(output) of "helm ls --all": the releases' lines and, with some helm
\* versions, a header line even when there is no release
helm_release_exist_in_namespace ==
    /\ Head1 = "helm_release_exist_in_namespace:219"
    /\ execute_command(<<"helm ls --all", "">>,
          /\ \E header \in BOOLEAN : retval' = (header \/ releases # {})
          /\ pc' = Return
          /\ UNCHANGED <<args, error, cluster, todo, name,
                         expected_release_name, api_resource, retries,
                         counter, attempt, count, waitvars, phases>>)

helm_install_chart_archive ==
    /\ Head1 = "helm_install_chart_archive:225"
    /\ execute_command(<<"helm install", name>>,
          /\ releases' = releases \cup {name}
          /\ pc' = Return
          /\ UNCHANGED <<args, error, namespace, locals, waitvars, phases>>)

helm_install_chart_from_repo ==
    \/ /\ Head1 = "helm_install_chart_from_repo:235"
       /\ execute_command(<<"helm repo add", "BASELINE">>,
             /\ pc' = Goto("helm_install_chart_from_repo:240")
             /\ UNCHANGED <<args, error, cluster, locals, waitvars, phases>>)
    \/ /\ Head1 = "helm_install_chart_from_repo:240"
       /\ execute_command(<<"helm repo update", "">>,
             /\ pc' = Goto("helm_install_chart_from_repo:244")
             /\ UNCHANGED <<args, error, cluster, locals, waitvars, phases>>)
    \/ /\ Head1 = "helm_install_chart_from_repo:244"
       /\ execute_command(<<"helm install BASELINE", name>>,
             /\ releases' = releases \cup {name}
             /\ pc' = Return
             /\ UNCHANGED <<args, error, namespace, locals, waitvars, phases>>)

\* ---------------------------------------------------------------- the waits
BeginWait(w) ==
    /\ wait' = w
    /\ result' = "running"
    /\ evals' = 0
    /\ sleeps' = 0
    /\ response' = <<>>
    /\ log' = Append(log, <<"wait", w, 0>>)

\* one turn of a countdown loop once its predicate is evaluated:
\* return / "counter = counter - 1; time.sleep(15)" / raise
Countdown(satisfied, sleepLabel) ==
    IF satisfied
    THEN /\ pc' = Return
         /\ error' = error
         /\ result' = "success"
         /\ counter' = 0
         /\ log' = Append(log, <<"ok", wait, 0>>)
    ELSE IF CanRetry(counter)
    THEN /\ pc' = Goto(sleepLabel)
         /\ error' = error
         /\ counter' = counter - 1
         /\ UNCHANGED <<result, log>>
    ELSE /\ Raise("TimeoutError")
         /\ result' = "timeout"
         /\ UNCHANGED <<counter, log>>

\* time.sleep(15), then the loop's next turn
Sleep(loopLabel) ==
    /\ sleeps' = sleeps + 1
    /\ response' = <<>>
    /\ pc' = Goto(loopLabel)
    /\ UNCHANGED <<args, error, returncode, cluster, todo, name,
                   expected_release_name, api_resource, retries, counter,
                   attempt, retval, log, phases, wait, result, evals>>

\* "release_name == expected_release_name", release_name being the whole
\* rstrip()ped output of "helm ls --deployed -q": one release name a line
DeployedMatch(output, expected) == output = <<expected>>

helm_wait_for_deployed_release_to_appear ==
    \/ /\ Head1 = "helm_wait_for_deployed_release_to_appear:258"
       /\ BeginWait("release_deployed")
       /\ counter' = CounterDeployed
       /\ pc' = Goto("helm_wait_for_deployed_release_to_appear:260")
       /\ UNCHANGED <<args, error, returncode, cluster, todo, name,
                      expected_release_name, api_resource, retries, attempt,
                      count, retval, phases>>
    \/ /\ Head1 = "helm_wait_for_deployed_release_to_appear:260"
       /\ execute_poll(
             \E deployed \in SUBSET releases :
                /\ response' = Listing(deployed)
                /\ evals' = evals + 1
                /\ Countdown(DeployedMatch(Listing(deployed),
                                           expected_release_name),
                             "helm_wait_for_deployed_release_to_appear:267")
                /\ UNCHANGED <<args, cluster, todo, name,
                               expected_release_name, api_resource, retries,
                               attempt, count, retval, phases, wait, sleeps>>)
    \/ /\ Head1 = "helm_wait_for_deployed_release_to_appear:267"
       /\ Sleep("helm_wait_for_deployed_release_to_appear:260")
       /\ UNCHANGED count

\* mutant: only an empty listing is refused
BaselineMissing_EmptyOnly(output, baseline) == output = <<>>

\* "not release_name or release_name != baseline_release_name"
BaselineMissing(output, baseline) == output = <<>> \/ output # <<baseline>>

helm_upgrade_with_chart_archive ==
    \/ /\ Head1 = "helm_upgrade_with_chart_archive:275"
       /\ execute_command(<<"helm ls --deployed", name>>,
             \E deployed \in SUBSET releases :
                /\ response' = Listing(deployed)
                /\ IF BaselineMissing(Listing(deployed), name)
                   THEN Raise("PreconditionError")
                   ELSE /\ pc' = Goto("helm_upgrade_with_chart_archive:282")
                        /\ error' = error
                /\ UNCHANGED <<args, cluster, locals, phases, wait, result,
                               evals, sleeps>>)
    \/ /\ Head1 = "helm_upgrade_with_chart_archive:282"
       /\ execute_command(<<"helm upgrade", name>>,
             /\ pc' = Return
             /\ UNCHANGED <<args, error, cluster, locals, waitvars, phases>>)

create_secret ==
    \/ /\ Head1 = "create_secret:291"
       /\ execute_command(<<"kubectl create secret", "armdocker">>,
             /\ pc' = Goto("create_secret:298")
             /\ UNCHANGED <<args, error, cluster, locals, waitvars, phases>>)
    \/ /\ Head1 = "create_secret:298"
       /\ execute_command(<<"kubectl patch serviceaccount", "default">>,
             /\ pc' = Return
             /\ UNCHANGED <<args, error, cluster, locals, waitvars, phases>>)

\* ------------------------------------------------------- KubernetesClient
\* mutant: a namespace being deleted is taken for an absent one
find_namespace_ActiveOnly == namespace = "active"

\* find_namespace: the namespace item, or None; a namespace being deleted
\* is still listed
find_namespace == namespace # "absent"

create_namespace ==
    /\ Head1 = "create_namespace:323"
    /\ log' = Append(log, <<"create_namespace", "", 0>>)
    /\ \E listed \in BOOLEAN :
          IF listed
          THEN /\ namespace' = "active"
               /\ pc' = Return
               /\ error' = error
          ELSE /\ namespace' = namespace
               /\ Raise("NamespaceCreateError")
    /\ UNCHANGED <<args, returncode, releases, locals, waitvars, phases>>

delete_namespace ==
    /\ Head1 = "delete_namespace:333"
    /\ log' = Append(log, <<"delete_namespace", "", 0>>)
    /\ namespace' = "terminating"
    /\ pc' = Return
    /\ UNCHANGED <<args, error, returncode, releases, locals, waitvars, phases>>

wait_for_namespace_to_be_deleted ==
    \/ /\ Head1 = "wait_for_namespace_to_be_deleted:340"
       /\ BeginWait("namespace_deleted")
       /\ counter' = CounterNamespace
       /\ pc' = Goto("wait_for_namespace_to_be_deleted:342")
       /\ UNCHANGED <<args, error, returncode, cluster, todo, name,
                      expected_release_name, api_resource, retries, attempt,
                      count, retval, phases>>
    \/ /\ Head1 = "wait_for_namespace_to_be_deleted:342"
       /\ \E gone \in BOOLEAN :
             /\ IF gone /\ namespace = "terminating"
                THEN namespace' = "absent" /\ releases' = {}
                ELSE UNCHANGED <<namespace, releases>>
             /\ response' = IF find_namespace' THEN <<"namespace">> ELSE <<>>
             /\ evals' = evals + 1
             /\ Countdown(~find_namespace',
                          "wait_for_namespace_to_be_deleted:347")
       /\ UNCHANGED <<args, returncode, todo, name, expected_release_name,
                      api_resource, retries, attempt, count, retval, phases,
                      wait, sleeps>>
    \/ /\ Head1 = "wait_for_namespace_to_be_deleted:347"
       /\ Sleep("wait_for_namespace_to_be_deleted:342")
       /\ UNCHANGED count

\* mutant: the two kinds in the other order
CompositeKinds_Swapped == <<"deployment", "replicaset">>

\* the kinds wait_for_all_resources waits for after the pods, in its order
CompositeKinds == <<"replicaset", "deployment">>

wait_for_all_resources ==
    \/ /\ Head1 = "wait_for_all_resources:354"
       /\ pc' = Call("wait_for_all_pods_to_start:372",
                     "wait_for_all_resources:355")
       /\ UNCHANGED <<api_resource, retries>>
       /\ UNCHANGED <<args, error, returncode, cluster, todo, name,
                      expected_release_name, counter, attempt, count, retval,
                      waitvars, log, phases>>
    \/ /\ Head1 = "wait_for_all_resources:355"
       /\ pc' = Call("wait_for_all_api_resources:427",
                     "wait_for_all_resources:356")
       /\ api_resource' = CompositeKinds[1]
       /\ retries' = RetriesDefault
       /\ UNCHANGED <<args, error, returncode, cluster, todo, name,
                      expected_release_name, counter, attempt, count, retval,
                      waitvars, log, phases>>
    \/ /\ Head1 = "wait_for_all_resources:356"
       /\ pc' = Call("wait_for_all_api_resources:427",
                     "wait_for_all_resources:end")
       /\ api_resource' = CompositeKinds[2]
       /\ retries' = RetriesDefault
       /\ UNCHANGED <<args, error, returncode, cluster, todo, name,
                      expected_release_name, counter, attempt, count, retval,
                      waitvars, log, phases>>
    \/ /\ Head1 = "wait_for_all_resources:end"
       /\ pc' = Return
       /\ UNCHANGED <<api_resource, retries>>
       /\ UNCHANGED <<args, error, returncode, cluster, todo, name,
                      expected_release_name, counter, attempt, count, retval,
                      waitvars, log, phases>>

\* "all([cs.ready for cs in i.status.container_statuses])": iterating None
\* raises TypeError, all([]) is True
StatusesRaise(i) == i.container_statuses.none
StatusesReady(i) ==
    \A c \in 1..Len(i.container_statuses.list) : i.container_statuses.list[c]

\* "i.status.phase == 'Running' and all(...)": the right operand is
\* evaluated only for a Running pod
PodRaises(i) == i.phase = "Running" /\ StatusesRaise(i)
PodReady(i) == i.phase = "Running" /\ StatusesReady(i)

PodsRaise(items) == \E k \in 1..Len(items) : PodRaises(items[k])
\* mutant: a namespace without pods is not ready
AllPodsReady_SomePod(items) ==
    items # <<>> /\ \A k \in 1..Len(items) : PodReady(items[k])

AllPodsReady(items) == \A k \in 1..Len(items) : PodReady(items[k])

wait_for_all_pods_to_start ==
    \/ /\ Head1 = "wait_for_all_pods_to_start:372"
       /\ BeginWait("pods_running")
       /\ counter' = CounterPodsStart
       /\ pc' = Goto("wait_for_all_pods_to_start:374")
       /\ UNCHANGED <<args, error, returncode, cluster, todo, name,
                      expected_release_name, api_resource, retries, attempt,
                      count, retval, phases>>
    \/ /\ Head1 = "wait_for_all_pods_to_start:374"
       /\ \E items \in PodListings :
             /\ response' = items
             /\ evals' = evals + 1
             /\ IF PodsRaise(items)
                THEN /\ Raise("TypeError")
                     /\ result' = "error"
                     /\ UNCHANGED <<counter, log>>
                ELSE Countdown(AllPodsReady(items),
                               "wait_for_all_pods_to_start:388")
       /\ UNCHANGED <<args, returncode, cluster, todo, name,
                      expected_release_name, api_resource, retries, attempt,
                      count, retval, phases, wait, sleeps>>
    \/ /\ Head1 = "wait_for_all_pods_to_start:388"
       /\ Sleep("wait_for_all_pods_to_start:374")
       /\ UNCHANGED count

wait_for_all_pods_to_terminate ==
    \/ /\ Head1 = "wait_for_all_pods_to_terminate:397"
       /\ BeginWait("pods_terminated")
       /\ counter' = CounterPodsTerminate
       /\ pc' = Goto("wait_for_all_pods_to_terminate:399")
       /\ UNCHANGED <<args, error, returncode, cluster, todo, name,
                      expected_release_name, api_resource, retries, attempt,
                      count, retval, phases>>
    \/ /\ Head1 = "wait_for_all_pods_to_terminate:399"
       /\ \E items \in PodListings :
             /\ response' = items
             /\ evals' = evals + 1
             /\ Countdown(items = <<>>, "wait_for_all_pods_to_terminate:409")
       /\ UNCHANGED <<args, returncode, cluster, todo, name,
                      expected_release_name, api_resource, retries, attempt,
                      count, retval, phases, wait, sleeps>>
    \/ /\ Head1 = "wait_for_all_pods_to_terminate:409"
       /\ Sleep("wait_for_all_pods_to_terminate:399")
       /\ UNCHANGED count

\* <<name, actual, expected>> of one row
GetNameActualDesired(output_line, kind) ==
    IF kind = "deployment"
    THEN <<output_line[1], output_line[2][1], output_line[2][2]>>
    ELSE <<output_line[1], output_line[3], output_line[2]>>

\* "if actual != expected"
NotReady(output_line, kind) ==
    GetNameActualDesired(output_line, kind)[2]
        # GetNameActualDesired(output_line, kind)[3]

\* mutant: the loop looks at the first row only
FirstNotReady_FirstRowOnly(rows, kind, i) ==
    IF i <= Len(rows) /\ NotReady(rows[i], kind) THEN i ELSE 0

\* the for loop: the index of the row it breaks at, 0 when it runs through
RECURSIVE FirstNotReady(_, _, _)
FirstNotReady(rows, kind, i) ==
    IF i > Len(rows) THEN 0
    ELSE IF NotReady(rows[i], kind) THEN i
    ELSE FirstNotReady(rows, kind, i + 1)

\* mutants: the budget is compared one late, one early
RetriesExceeded_Late(a, r) == a > r + 1
RetriesExceeded_Early(a, r) == a >= r

\* "if attempt > retries", attempt already incremented
RetriesExceeded(a, r) == a > r

\* mutant: the attempts go on from the evaluations of the wait before
FirstAttempt_Shared == evals + 1

\* "attempt = 1", a local of each call
FirstAttempt == 1

wait_for_all_api_resources ==
    \/ /\ Head1 = "wait_for_all_api_resources:427"
       /\ BeginWait(api_resource)
       /\ attempt' = FirstAttempt
       /\ count' = 0
       /\ pc' = Goto("wait_for_all_api_resources:430")
       /\ UNCHANGED <<args, error, returncode, cluster, todo, name,
                      expected_release_name, api_resource, retries, counter,
                      retval, phases>>
    \/ /\ Head1 = "wait_for_all_api_resources:430"
       /\ execute_poll(
             \E rows \in RowListings(api_resource) :
                LET broke == FirstNotReady(rows, api_resource, 1)
                    total == Len(rows)
                IN  /\ response' = rows
                    /\ evals' = evals + 1
                    /\ IF broke # 0
                       THEN /\ attempt' = attempt + 1
                            /\ count' = count + (broke - 1)
                            /\ IF RetriesExceeded(attempt + 1, retries)
                               THEN /\ Raise("TimeoutError")
                                    /\ result' = "timeout"
                               ELSE /\ pc' = Goto("wait_for_all_api_resources:452")
                                    /\ error' = error
                                    /\ result' = result
                            /\ log' = log
                       ELSE /\ error' = error
                            /\ IF count + total = total
                               THEN /\ pc' = Return
                                    /\ result' = "success"
                                    /\ attempt' = 0
                                    /\ count' = 0
                                    /\ log' = Append(log, <<"ok", wait, 0>>)
                               ELSE /\ pc' = pc
                                    /\ count' = count + total
                                    /\ UNCHANGED <<result, attempt, log>>
                    /\ UNCHANGED <<args, cluster, todo, name,
                                   expected_release_name, api_resource,
                                   retries, counter, retval, phases, wait,
                                   sleeps>>)
    \/ /\ Head1 = "wait_for_all_api_resources:452"
       /\ Sleep("wait_for_all_api_resources:430")
       /\ count' = 0

\* -------------------------------------------------------------- the phases
\* a statement that only calls, passing the release name arguments
Control(stack, release, expected) ==
    /\ pc' = stack
    /\ name' = release
    /\ expected_release_name' = expected
    /\ UNCHANGED <<args, error, returncode, cluster, todo, api_resource,
                   retries, counter, attempt, count, waitvars, log, phases>>

\* mutant: the namespace is deleted before the wait for its pods
cleanup_target_namespace_DeleteFirst ==
    \/ /\ Head1 = "cleanup_target_namespace:483"
       /\ log' = Append(log, <<"list_namespace", "", 0>>)
       /\ pc' = IF find_namespace
                THEN Call("helm_release_exist_in_namespace:219",
                          "cleanup_target_namespace:485")
                ELSE Return
       /\ UNCHANGED <<args, error, returncode, cluster, locals, waitvars,
                      phases>>
    \/ /\ Head1 = "cleanup_target_namespace:485"
       /\ retval' = FALSE
       /\ Control(IF retval
                  THEN Call("helm_cleanup_namespace:195",
                            "cleanup_target_namespace:487")
                  ELSE Goto("cleanup_target_namespace:488"),
                  name, expected_release_name)
    \/ /\ Head1 = "cleanup_target_namespace:487"
       /\ Control(Call("delete_namespace:333",
                       "cleanup_target_namespace:488"),
                  name, expected_release_name)
       /\ UNCHANGED retval
    \/ /\ Head1 = "cleanup_target_namespace:488"
       /\ Control(Call("wait_for_all_pods_to_terminate:397",
                       "cleanup_target_namespace:489"),
                  name, expected_release_name)
       /\ UNCHANGED retval
    \/ /\ Head1 = "cleanup_target_namespace:489"
       /\ Control(Goto("wait_for_namespace_to_be_deleted:340"),
                  name, expected_release_name)
       /\ UNCHANGED retval

cleanup_target_namespace ==
    \/ /\ Head1 = "cleanup_target_namespace:483"
       /\ log' = Append(log, <<"list_namespace", "", 0>>)
       /\ pc' = IF find_namespace
                THEN Call("helm_release_exist_in_namespace:219",
                          "cleanup_target_namespace:485")
                ELSE Return
       /\ UNCHANGED <<args, error, returncode, cluster, locals, waitvars,
                      phases>>
    \/ /\ Head1 = "cleanup_target_namespace:485"
       /\ retval' = FALSE
       /\ Control(IF retval
                  THEN Call("helm_cleanup_namespace:195",
                            "cleanup_target_namespace:487")
                  ELSE Goto("cleanup_target_namespace:488"),
                  name, expected_release_name)
    \/ /\ Head1 = "cleanup_target_namespace:487"
       /\ Control(Call("wait_for_all_pods_to_terminate:397",
                       "cleanup_target_namespace:488"),
                  name, expected_release_name)
       /\ UNCHANGED retval
    \/ /\ Head1 = "cleanup_target_namespace:488"
       /\ Control(Call("delete_namespace:333",
                       "cleanup_target_namespace:489"),
                  name, expected_release_name)
       /\ UNCHANGED retval
    \/ /\ Head1 = "cleanup_target_namespace:489"
       /\ Control(Goto("wait_for_namespace_to_be_deleted:340"),
                  name, expected_release_name)
       /\ UNCHANGED retval

test_setup ==
    \/ /\ Head1 = "test_setup:492"
       /\ Control(Call("cleanup_target_namespace:483", "test_setup:494"),
                  name, expected_release_name)
       /\ UNCHANGED retval
    \/ /\ Head1 = "test_setup:494"
       /\ Control(Call("create_namespace:323", "test_setup:496"),
                  name, expected_release_name)
       /\ UNCHANGED retval
    \/ /\ Head1 = "test_setup:496"
       /\ Control(Call("create_secret:291", "test_setup:498"),
                  name, expected_release_name)
       /\ UNCHANGED retval
    \/ /\ Head1 = "test_setup:498"
       /\ IF args.dependency_chart_archive
          THEN Control(Call("helm_install_chart_archive:225",
                            "test_setup:504"),
                       DependencyRelease, expected_release_name)
          ELSE Control(Return, name, expected_release_name)
       /\ UNCHANGED retval
    \/ /\ Head1 = "test_setup:504"
       /\ Control(Call("wait_for_all_resources:354", "test_setup:507"),
                  name, expected_release_name)
       /\ UNCHANGED retval
    \/ /\ Head1 = "test_setup:507"
       /\ Control(Goto("helm_list_releases:214"),
                  name, expected_release_name)
       /\ UNCHANGED retval

\* mutant: the dependency release is left to the namespace cleanup
DeleteDependency_Never(a) == FALSE

\* "if args.dependency_chart_archive" of test_teardown
DeleteDependency(a) == a.dependency_chart_archive

test_teardown ==
    \/ /\ Head1 = "test_teardown:510"
       /\ IF DeleteDependency(args)
          THEN Control(Call("helm_delete_release:207", "test_teardown:513"),
                       DependencyRelease, expected_release_name)
          ELSE Control(Goto("test_teardown:513"),
                       name, expected_release_name)
       /\ UNCHANGED retval
    \/ /\ Head1 = "test_teardown:513"
       /\ Control(Goto("cleanup_target_namespace:483"),
                  name, expected_release_name)
       /\ UNCHANGED retval

\* mutant: the release is deleted without the wait for its deployed state
test_install_NoDeployedWait ==
    \/ /\ Head1 = "test_install:525"
       /\ Control(Call("helm_install_chart_archive:225", "test_install:529"),
                  ApplicationUnderTest, expected_release_name)
       /\ UNCHANGED retval
    \/ /\ Head1 = "test_install:529"
       /\ Control(Call("wait_for_all_resources:354", "test_install:534"),
                  name, expected_release_name)
       /\ UNCHANGED retval
    \/ /\ Head1 = "test_install:530"
       /\ Control(Call("helm_wait_for_deployed_release_to_appear:258",
                       "test_install:534"),
                  name, ApplicationUnderTest)
       /\ UNCHANGED retval
    \/ /\ Head1 = "test_install:534"
       /\ Control(Goto("helm_delete_release:207"),
                  ApplicationUnderTest, expected_release_name)
       /\ UNCHANGED retval

test_install ==
    \/ /\ Head1 = "test_install:525"
       /\ Control(Call("helm_install_chart_archive:225", "test_install:529"),
                  ApplicationUnderTest, expected_release_name)
       /\ UNCHANGED retval
    \/ /\ Head1 = "test_install:529"
       /\ Control(Call("wait_for_all_resources:354", "test_install:530"),
                  name, expected_release_name)
       /\ UNCHANGED retval
    \/ /\ Head1 = "test_install:530"
       /\ Control(Call("helm_wait_for_deployed_release_to_appear:258",
                       "test_install:534"),
                  name, ApplicationUnderTest)
       /\ UNCHANGED retval
    \/ /\ Head1 = "test_install:534"
       /\ Control(Goto("helm_delete_release:207"),
                  ApplicationUnderTest, expected_release_name)
       /\ UNCHANGED retval

\* mutant: the upgrade does not wait for the baseline release
test_upgrade_NoBaselineWait ==
    \/ /\ Head1 = "test_upgrade:551"
       /\ Control(Call("helm_install_chart_from_repo:235",
                       "test_upgrade:562"),
                  BaselineRelease, expected_release_name)
       /\ UNCHANGED retval
    \/ /\ Head1 = "test_upgrade:557"
       /\ Control(Call("wait_for_all_resources:354", "test_upgrade:558"),
                  name, expected_release_name)
       /\ UNCHANGED retval
    \/ /\ Head1 = "test_upgrade:558"
       /\ Control(Call("helm_wait_for_deployed_release_to_appear:258",
                       "test_upgrade:562"),
                  name, BaselineRelease)
       /\ UNCHANGED retval
    \/ /\ Head1 = "test_upgrade:562"
       /\ Control(Call("helm_upgrade_with_chart_archive:275",
                       "test_upgrade:577"),
                  BaselineRelease, expected_release_name)
       /\ UNCHANGED retval
    \/ /\ Head1 = "test_upgrade:577"
       /\ Control(Call("wait_for_all_resources:354", "test_upgrade:578"),
                  name, expected_release_name)
       /\ UNCHANGED retval
    \/ /\ Head1 = "test_upgrade:578"
       /\ Control(Goto("helm_wait_for_deployed_release_to_appear:258"),
                  name, BaselineRelease)
       /\ UNCHANGED retval

test_upgrade ==
    \/ /\ Head1 = "test_upgrade:551"
       /\ Control(Call("helm_install_chart_from_repo:235",
                       "test_upgrade:557"),
                  BaselineRelease, expected_release_name)
       /\ UNCHANGED retval
    \/ /\ Head1 = "test_upgrade:557"
       /\ Control(Call("wait_for_all_resources:354", "test_upgrade:558"),
                  name, expected_release_name)
       /\ UNCHANGED retval
    \/ /\ Head1 = "test_upgrade:558"
       /\ Control(Call("helm_wait_for_deployed_release_to_appear:258",
                       "test_upgrade:562"),
                  name, BaselineRelease)
       /\ UNCHANGED retval
    \/ /\ Head1 = "test_upgrade:562"
       /\ Control(Call("helm_upgrade_with_chart_archive:275",
                       "test_upgrade:577"),
                  BaselineRelease, expected_release_name)
       /\ UNCHANGED retval
    \/ /\ Head1 = "test_upgrade:577"
       /\ Control(Call("wait_for_all_resources:354", "test_upgrade:578"),
                  name, expected_release_name)
       /\ UNCHANGED retval
    \/ /\ Head1 = "test_upgrade:578"
       /\ Control(Goto("helm_wait_for_deployed_release_to_appear:258"),
                  name, BaselineRelease)
       /\ UNCHANGED retval

\* ------------------------------------------------------- the specification
Next ==
    \/ parse_args
    \/ main
    \/ cleanup_target_namespace
    \/ test_setup
    \/ test_teardown
    \/ test_install
    \/ test_upgrade
    \/ helm_cleanup_namespace
    \/ helm_delete_release
    \/ helm_list_releases
    \/ helm_release_exist_in_namespace
    \/ helm_install_chart_archive
    \/ helm_install_chart_from_repo
    \/ helm_wait_for_deployed_release_to_appear
    \/ helm_upgrade_with_chart_archive
    \/ create_secret
    \/ create_namespace
    \/ delete_namespace
    \/ wait_for_namespace_to_be_deleted
    \/ wait_for_all_resources
    \/ wait_for_all_pods_to_start
    \/ wait_for_all_pods_to_terminate
    \/ wait_for_all_api_resources

Spec == Init /\ [][Next]_vars

\* wait_for_all_api_resources called on its own, with any retries argument
InitApi ==
    /\ args = [dependency_chart_archive |-> FALSE,
               skip_upgrade_test |-> TRUE,
               baseline_chart_version |-> FALSE]
    /\ pc = <<"wait_for_all_api_resources:427">>
    /\ error = "none"
    /\ returncode = 0
    /\ namespace = "active"
    /\ releases = {}
    /\ todo = <<>>
    /\ name = ""
    /\ expected_release_name = ""
    /\ api_resource \in {"replicaset", "deployment"}
    /\ retries \in (0..MaxRetries) \cup {RetriesDefault}
    /\ counter = 0
    /\ attempt = 0
    /\ count = 0
    /\ retval = FALSE
    /\ response = <<>>
    /\ log = <<>>
    /\ phases = <<>>
    /\ wait = "none"
    /\ result = "none"
    /\ evals = 0
    /\ sleeps = 0

NextApi == wait_for_all_api_resources

SpecApi == InitApi /\ [][NextApi]_vars

\* ------------------------------------------------------------- properties
Range(f) == {f[i] : i \in 1..Len(f)}
Max(a, b) == IF a > b THEN a ELSE b

CountdownWaits ==
    {"release_deployed", "namespace_deleted", "pods_running",
     "pods_terminated"}
ApiWaits == {"replicaset", "deployment"}

\* the retry budget of a countdown wait
RetriesOf(w) ==
    CASE w = "release_deployed" -> 20
      [] w = "namespace_deleted" -> 60
      [] w = "pods_running" -> 60
      [] w = "pods_terminated" -> 60

\* C1: a countdown wait whose predicate is false at every evaluation makes
\* exactly retries + 1 evaluations (21, 61, 61, 61) with one sleep between
\* consecutive evaluations, none after the last, and then fails with a
\* timeout: while it runs it has made at most retries evaluations, all
\* false, and it times out at evaluation retries + 1 after retries sleeps.
C1_CountdownExhausted ==
    wait \in CountdownWaits =>
        /\ result = "running" =>
              /\ evals <= RetriesOf(wait)
              /\ sleeps <= evals
              /\ evals <= sleeps + 1
        /\ result = "timeout" =>
              /\ evals = RetriesOf(wait) + 1
              /\ sleeps = RetriesOf(wait)
              /\ error = "TimeoutError"
              /\ pc = <<>>
        /\ error = "TimeoutError" => result = "timeout"

C1_Witness ==
    /\ wait = "namespace_deleted"
    /\ result = "timeout"
    /\ evals = 61
    /\ sleeps = 60

\* C2 as stated: wait_for_all_api_resources with retries = R whose every
\* listing holds a resource with actual != desired makes exactly R + 1
\* listings and R sleeps before it fails with TimeoutError.
C2_AsStated ==
    (wait \in ApiWaits /\ result = "timeout") =>
        /\ evals = retries + 1
        /\ sleeps = retries

\* C2 amended: under the same condition it makes exactly R listings (one
\* when R = 0) with one sleep between consecutive listings, R - 1 in all,
\* and then fails with TimeoutError: while it runs it has made fewer than R
\* listings, and it times out at listing R.
C2_ApiExhausted ==
    wait \in ApiWaits =>
        /\ result = "running" =>
              /\ evals < Max(retries, 1)
              /\ sleeps <= evals
              /\ evals <= sleeps + 1
        /\ result = "timeout" =>
              /\ evals = Max(retries, 1)
              /\ sleeps = evals - 1
              /\ error = "TimeoutError"
              /\ pc = <<>>
        /\ error = "TimeoutError" => result = "timeout"

C2_Witness ==
    /\ wait = "deployment"
    /\ retries = 20
    /\ result = "timeout"
    /\ evals = 20
    /\ sleeps = 19

\* the loop labels: the statement about to run is inside a wait's loop
InWaitLoop ==
    Head1 \in {"helm_wait_for_deployed_release_to_appear:260",
               "helm_wait_for_deployed_release_to_appear:267",
               "wait_for_namespace_to_be_deleted:342",
               "wait_for_namespace_to_be_deleted:347",
               "wait_for_all_pods_to_start:374",
               "wait_for_all_pods_to_start:388",
               "wait_for_all_pods_to_terminate:399",
               "wait_for_all_pods_to_terminate:409",
               "wait_for_all_api_resources:430",
               "wait_for_all_api_resources:452"}

\* C3 as stated: in each of the five waits, for every k in 1..retries + 1,
\* a predicate false at evaluations 1..k-1 and true at evaluation k gives
\* success after exactly k evaluations and k - 1 sleeps: so a wait that has
\* returned has slept once less than it evaluated and is out of its loop,
\* and no wait times out before it has made retries + 1 evaluations.
C3_AsStated ==
    /\ result = "success" =>
          /\ sleeps = evals - 1
          /\ ~InWaitLoop
    /\ result = "timeout" =>
          evals = (IF wait \in ApiWaits THEN retries ELSE RetriesOf(wait)) + 1

\* C3 amended: the statement holds of the four countdown waits for every k
\* in 1..retries + 1, and of wait_for_all_api_resources for every k in
\* 1..retries only (its retries-th failing listing raises TimeoutError): a
\* wait that has returned made k evaluations within that range and k - 1
\* sleeps, is out of its loop and raised no timeout, and no wait times out
\* before the last evaluation of that range.
C3_SuccessAtK ==
    LET last == IF wait \in ApiWaits THEN Max(retries, 1)
                                     ELSE RetriesOf(wait) + 1
    IN  wait # "none" =>
           /\ result = "success" =>
                 /\ evals \in 1..last
                 /\ sleeps = evals - 1
                 /\ ~InWaitLoop
                 /\ error # "TimeoutError"
           /\ result = "timeout" => evals = last

C3_Witness ==
    /\ wait = "deployment"
    /\ result = "success"
    /\ evals = 20
    /\ sleeps = 19

\* a pod without container-status entries: None, or an empty list
NoStatuses(i) ==
    i.container_statuses.none \/ i.container_statuses.list = <<>>

\* C4: in wait_for_all_pods_to_start a listed pod without container-status
\* entries makes the predicate false for that evaluation, also when its
\* phase is Running: the wait neither returns success on that listing nor
\* raises an error other than the timeout.
C4_NoStatusesNotReady ==
    (/\ wait = "pods_running"
     /\ \E k \in 1..Len(response) : NoStatuses(response[k])) =>
        /\ result # "success"
        /\ error \in {"none", "TimeoutError"}

\* C5: helm_wait_for_deployed_release_to_appear returns success at the
\* first evaluation whose deployed listing holds the expected release,
\* whatever other releases it lists: it never sleeps or times out on a
\* listing that holds the expected release.
C5_SuccessWhenListed ==
    (/\ wait = "release_deployed"
     /\ expected_release_name \in Range(response)) =>
        result = "success"

\* actual and desired of a listed row, read from the columns of its kind
ActualOf(row, kind) == IF kind = "deployment" THEN row[2][1] ELSE row[3]
DesiredOf(row, kind) == IF kind = "deployment" THEN row[2][2] ELSE row[2]
SomeRowNotReady ==
    \E k \in 1..Len(response) :
        ActualOf(response[k], wait) # DesiredOf(response[k], wait)

\* C6 as stated: the failure of a row resets the kind's attempt counter.
C6_AsStated ==
    (wait \in ApiWaits /\ Head1 = "wait_for_all_api_resources:452") =>
        attempt = 1

\* C6 amended: a pass that lists any row with actual != desired never
\* returns success, whatever rows before it were ready (app 2/2, worker 1/2
\* is not ready); the failure advances the kind's attempt counter by one,
\* one per failing pass, and resets the count of ready rows, so that every
\* pass starts counting from 0.
C6_NotReadyPass ==
    wait \in ApiWaits =>
        /\ SomeRowNotReady =>
              /\ result \in {"running", "timeout"}
              /\ attempt = evals + 1
              /\ result = "running" => Head1 = "wait_for_all_api_resources:452"
        /\ Head1 = "wait_for_all_api_resources:430" =>
              /\ count = 0
              /\ attempt = evals + 1

C6_Witness ==
    /\ wait = "deployment"
    /\ response = << <<"app", <<2, 2>>>>, <<"worker", <<1, 2>>>> >>
    /\ Head1 = "wait_for_all_api_resources:452"
    /\ attempt = 2
    /\ count = 1

\* C7: wait_for_all_resources runs the pod wait, then the replicaset wait,
\* then the deployment wait: a replicaset wait begins only right after the
\* pod wait returned, a deployment wait only right after the replicaset
\* wait returned, nothing comes between them, and a wait of the three that
\* timed out or raised is the last thing the run did.
C7_CompositeOrder ==
    /\ \A i \in 1..Len(log) :
          /\ log[i] = <<"wait", "replicaset", 0>> =>
                i > 1 /\ log[i - 1] = <<"ok", "pods_running", 0>>
          /\ log[i] = <<"wait", "deployment", 0>> =>
                i > 1 /\ log[i - 1] = <<"ok", "replicaset", 0>>
          /\ (log[i] = <<"ok", "pods_running", 0>> /\ i < Len(log)) =>
                log[i + 1] = <<"wait", "replicaset", 0>>
          /\ (log[i] = <<"ok", "replicaset", 0>> /\ i < Len(log)) =>
                log[i + 1] = <<"wait", "deployment", 0>>
    /\ (/\ wait \in {"pods_running", "replicaset", "deployment"}
        /\ result \in {"timeout", "error"}) =>
          /\ pc = <<>>
          /\ log[Len(log)] = <<"wait", wait, 0>>

C7_Witness ==
    /\ Len(log) >= 6
    /\ log[Len(log)] = <<"ok", "deployment", 0>>
    /\ log[Len(log) - 2] = <<"ok", "replicaset", 0>>
    /\ log[Len(log) - 4] = <<"ok", "pods_running", 0>>

\* C8: helm_install_chart_from_repo issues repo-add, repo-update, install,
\* in that order and nothing else: repo-update runs only right after a
\* repo-add that exited 0, the install only right after a repo-update that
\* exited 0, a command that exited non-zero is the last thing the run did,
\* and on return exactly those three commands were issued.
C8_RepoInstallOrder ==
    /\ \A i \in 1..Len(log) :
          /\ log[i][1] = "helm repo update" =>
                i > 1 /\ log[i - 1] = <<"helm repo add", "BASELINE", 0>>
          /\ log[i][1] = "helm install BASELINE" =>
                i > 1 /\ log[i - 1] = <<"helm repo update", "", 0>>
          /\ (log[i][1] \in {"helm repo add", "helm repo update",
                             "helm install BASELINE"} /\ log[i][3] # 0) =>
                /\ i = Len(log)
                /\ error = "CommandExecutionError"
                /\ pc = <<>>
    /\ Head1 = "test_upgrade:557" =>
          log = << <<"helm repo add", "BASELINE", 0>>,
                   <<"helm repo update", "", 0>>,
                   <<"helm install BASELINE", BaselineRelease, 0>> >>

C8_Witness ==
    /\ Head1 = "test_upgrade:557"
    /\ Len(log) = 3
    /\ BaselineRelease \in releases

\* C9: helm_upgrade_with_chart_archive whose deployed listing is not
\* exactly the baseline release (empty, or anything else) fails with the
\* precondition error and never invokes the upgrade command; the upgrade
\* command runs only right after a listing that matched the baseline.
C9_UpgradePrecondition ==
    /\ \A i \in 1..Len(log) :
          log[i][1] = "helm upgrade" =>
             i > 1 /\ log[i - 1] = <<"helm ls --deployed", BaselineRelease, 0>>
    /\ (log # <<>> /\ log[Len(log)][1] = "helm upgrade") =>
          response = <<BaselineRelease>>
    /\ (/\ log # <<>>
        /\ log[Len(log)] = <<"helm ls --deployed", BaselineRelease, 0>>
        /\ response # <<BaselineRelease>>) =>
          /\ error = "PreconditionError"
          /\ pc = <<>>
    /\ error = "PreconditionError" =>
          /\ log[Len(log)] = <<"helm ls --deployed", BaselineRelease, 0>>
          /\ response # <<BaselineRelease>>

C9_Witness ==
    /\ error = "PreconditionError"
    /\ BaselineRelease \notin Range(response)
    /\ log[Len(log)][1] = "helm ls --deployed"

\* C10: a fatal error ends the run where it is raised: once an error is
\* set the stack is empty and no step of the program is enabled, so no
\* later step of the phase and no later phase, Teardown included, runs.
C10_FatalAborts ==
    error # "none" =>
        /\ pc = <<>>
        /\ ~ENABLED Next
        /\ (phases # <<>> /\ phases[Len(phases)] # "Teardown") =>
              "Teardown" \notin Range(phases)

C10_Witness ==
    /\ error = "TimeoutError"
    /\ phases = <<"Setup", "Install-Test">>
    /\ wait = "release_deployed"
    /\ pc = <<>>

\* the run ended with exit status 0
Passed == pc = <<>> /\ error = "none"

\* the phases of a run, in main's order
PhasesOf(a) ==
    IF a.skip_upgrade_test
    THEN <<"Setup", "Install-Test", "Teardown">>
    ELSE <<"Setup", "Install-Test", "Upgrade-Test", "Teardown">>

\* main's statement after the call of each phase
AfterPhase(phase) ==
    CASE phase = "Setup" -> "main:582"
      [] phase = "Install-Test" -> "main:583"
      [] phase = "Upgrade-Test" -> "main:585"
      [] phase = "Teardown" -> "main:exit"

\* C11: the phases begin in the order Setup, Install-Test, Upgrade-Test,
\* Teardown, each once, Upgrade-Test if and only if skip-upgrade-test is
\* not set; while a phase runs main waits for it to return (the next phase
\* begins only from main, after the return), and a run without an error
\* has begun every phase of its sequence.
C11_PhaseOrder ==
    /\ Len(phases) <= Len(PhasesOf(args))
    /\ phases = SubSeq(PhasesOf(args), 1, Len(phases))
    /\ (phases # <<>> /\ pc # <<>>) =>
          LET bottom == pc[Len(pc)]
              here == phases[Len(phases)]
          IN  \/ bottom = AfterPhase(here)
              \/ /\ here = "Install-Test"
                 /\ pc = <<"main:585">>
                 /\ args.skip_upgrade_test
    /\ (phases = <<>> /\ pc # <<>>) =>
          pc \in {<<"parse_args:148">>, <<"main:469">>, <<"main:581">>}
    /\ Passed => phases = PhasesOf(args)

C11_Witness ==
    /\ Passed
    /\ args.skip_upgrade_test
    /\ phases = <<"Setup", "Install-Test", "Teardown">>

\* C12: the step that creates the namespace in Setup finds it absent, the
\* absence having been observed by the listing of cleanup or by
\* wait-for-namespace-deleted; when the cleanup-and-recreate has returned,
\* the namespace exists, it is the one created by this run, and it holds
\* no release (nothing of the previous incarnation survives its deletion).
C12_CleanNamespace ==
    /\ Head1 = "create_namespace:323" =>
          /\ phases = <<"Setup">>
          /\ namespace = "absent"
          /\ releases = {}
          /\ \/ log = << <<"list_namespace", "", 0>> >>
             \/ /\ Len(log) > 1
                /\ log[Len(log)] = <<"ok", "namespace_deleted", 0>>
                /\ \E i \in 1..Len(log) : log[i] = <<"delete_namespace", "", 0>>
    /\ Head1 = "test_setup:496" =>
          /\ namespace = "active"
          /\ releases = {}
          /\ releases \cap Stray = {}
          /\ log[Len(log)] = <<"create_namespace", "", 0>>

C12_Witness ==
    /\ Head1 = "test_setup:496"
    /\ namespace = "active"
    /\ log = << <<"list_namespace", "", 0>>,
                <<"helm ls --all", "", 0>>,
                <<"helm ls --all -q", "", 0>>,
                <<"helm uninstall", "stray-a", 0>>,
                <<"wait", "pods_terminated", 0>>,
                <<"ok", "pods_terminated", 0>>,
                <<"delete_namespace", "", 0>>,
                <<"wait", "namespace_deleted", 0>>,
                <<"ok", "namespace_deleted", 0>>,
                <<"create_namespace", "", 0>> >>

\* the releases of the target namespace between Setup and Teardown, outside
\* the test phases
ReleasesBetweenTests(a) ==
    IF a.dependency_chart_archive THEN {DependencyRelease} ELSE {}

C14_TeardownLeavesNothing ==
    Passed =>
       /\ phases[Len(phases)] = "Teardown"
       /\ namespace = "absent"
       /\ releases = {}
       /\ wait = "namespace_deleted" /\ result = "success"
       /\ response = <<>>
       /\ log[Len(log)] = <<"ok", "namespace_deleted", 0>>
       /\ log[Len(log) - 2] = <<"delete_namespace", "", 0>>
       /\ IF args.dependency_chart_archive
          THEN /\ log[1] = <<"helm uninstall", DependencyRelease, 0>>
               /\ log[2] = <<"list_namespace", "", 0>>
               /\ \A i \in 2..Len(log) : log[i][2] # DependencyRelease
          ELSE /\ log[1] = <<"list_namespace", "", 0>>
               /\ \A i \in 1..Len(log) : log[i][2] # DependencyRelease

C14_Witness ==
    /\ Passed
    /\ args.dependency_chart_archive
    /\ ~args.skip_upgrade_test
    /\ namespace = "absent"
    /\ log[1] = <<"helm uninstall", DependencyRelease, 0>>
    /\ \E i \in 1..Len(log) : log[i] = <<"helm uninstall", BaselineRelease, 0>>

\* the waits whose predicate runs an external command
CommandWaits == {"release_deployed", "replicaset", "deployment"}

\* C15: a command that exits non-zero ends the run at once with the command
\* error and is the last command of the run; when it is the command of a
\* wait's predicate, the wait made no evaluation and no sleep after it
\* (every earlier evaluation was followed by one sleep, the failed one by
\* none) and the rest of its budget is left as it was.
C15_CommandFailureEndsWait ==
    /\ returncode # 0 => error = "CommandExecutionError" /\ pc = <<>>
    /\ \A i \in 1..Len(log) :
          log[i][3] # 0 =>
             i = Len(log) /\ error = "CommandExecutionError" /\ pc = <<>>
    /\ (result = "error" /\ wait \in CommandWaits) =>
          /\ error = "CommandExecutionError" /\ returncode # 0
          /\ pc = <<>>
          /\ log[Len(log)] = <<"wait", wait, 0>>
          /\ evals >= 1
          /\ sleeps = evals - 1
          /\ wait = "release_deployed" => counter = CounterDeployed - sleeps
          /\ wait \in ApiWaits => attempt = evals /\ attempt <= retries

C15_Witness ==
    /\ wait = "release_deployed"
    /\ result = "error"
    /\ returncode # 0
    /\ evals = 2 /\ sleeps = 1
    /\ counter = CounterDeployed - 1
    /\ pc = <<>>

\* C16: with neither a baseline version nor skip-upgrade-test, the run is
\* either still at the check of the arguments or has ended there with the
\* argument error: no command was executed, no phase begun, no wait begun,
\* no cluster call made (the namespace is not being deleted, and holds
\* the releases it held).
C16_InvalidArgsNoAction ==
    ((~args.baseline_chart_version) /\ (~args.skip_upgrade_test)) =>
       /\ \/ pc = <<"parse_args:148">> /\ error = "none"
          \/ pc = <<>> /\ error = "ArgumentTypeError"
       /\ log = <<>>
       /\ phases = <<>>
       /\ returncode = 0
       /\ wait = "none" /\ result = "none" /\ evals = 0 /\ sleeps = 0
       /\ namespace \in {"absent", "active"}
       /\ releases \subseteq Stray

C16_Witness ==
    /\ error = "ArgumentTypeError"
    /\ pc = <<>>
    /\ ~args.baseline_chart_version
    /\ ~args.skip_upgrade_test
    /\ namespace = "active"
    /\ releases = Stray

\* C17: each call of wait_for_all_api_resources has its own attempt counter
\* and budget. Nothing is carried into the call (the counters of the call
\* before are gone, however many listings it made); the first listing is
\* attempt 1 of the full budget; what is left of the budget depends only
\* on the listings of this call, so the deployment wait may make as many
\* listings as the replicaset wait could; a failing pass takes one
\* attempt, however many of its rows are not ready.
C17_OwnBudget ==
    /\ Head1 = "wait_for_all_api_resources:427" =>
          /\ attempt = 0 /\ count = 0
          /\ retries = RetriesDefault
          /\ api_resource = "deployment" =>
                /\ wait = "replicaset" /\ result = "success"
                /\ evals \in 1..RetriesDefault
    /\ (wait \in ApiWaits /\ evals = 0) =>
          /\ Head1 = "wait_for_all_api_resources:430"
          /\ attempt = 1 /\ count = 0 /\ sleeps = 0
          /\ retries = RetriesDefault
    /\ (wait \in ApiWaits /\ result = "running") =>
          /\ retries - attempt = RetriesDefault - (evals + 1)
          /\ Head1 = "wait_for_all_api_resources:452" =>
                /\ attempt = sleeps + 2
                /\ \E i \in 1..Len(response) :
                      NotReady(response[i], api_resource)
    /\ (wait \in ApiWaits /\ result = "timeout") =>
          evals = RetriesDefault /\ attempt = RetriesDefault + 1

C17_Witness ==
    /\ Head1 = "wait_for_all_api_resources:427"
    /\ api_resource = "deployment"
    /\ retries = RetriesDefault
    /\ attempt = 0
    /\ wait = "replicaset" /\ result = "success"
    /\ evals = RetriesDefault /\ sleeps = RetriesDefault - 1

\* C18: the steps of the namespace cleanup follow one another. While
\* releases are being uninstalled those not yet uninstalled are exactly
\* those still in the namespace, and wait-for-pods-terminated starts with
\* none left, right after the last uninstall (or after an empty listing);
\* the namespace delete follows the success of that wait (or a release
\* check that found nothing) and the namespace is active until then;
\* wait-for-namespace-deleted follows the delete; the namespace is created
\* right after that wait's success (or after a cleanup that found no
\* namespace).
C18_CleanupOrder ==
    /\ Head1 = "helm_cleanup_namespace:199" => Range(todo) = releases
    /\ Head1 = "wait_for_all_pods_to_terminate:397" =>
          todo = <<>> /\ releases = {}
    /\ (wait = "pods_terminated" /\ result = "running") =>
          namespace = "active"
    /\ (wait = "namespace_deleted" /\ result = "running") =>
          namespace = "terminating"
    /\ \A i \in 1..Len(log) :
          /\ log[i][1] = "helm uninstall" =>
                \A j \in 1..(i - 1) :
                   log[j] \notin {<<"wait", "pods_terminated", 0>>,
                                  <<"delete_namespace", "", 0>>}
          /\ log[i] = <<"wait", "pods_terminated", 0>> =>
                /\ i > 1
                /\ \/ log[i - 1][1] = "helm uninstall" /\ log[i - 1][3] = 0
                   \/ log[i - 1] = <<"helm ls --all -q", "", 0>>
          /\ log[i] = <<"delete_namespace", "", 0>> =>
                /\ i > 1
                /\ \/ log[i - 1] = <<"ok", "pods_terminated", 0>>
                   \/ /\ log[i - 1] = <<"helm ls --all", "", 0>>
                      /\ \A j \in 1..Len(log) : log[j][1] # "helm ls --all -q"
          /\ log[i] = <<"wait", "namespace_deleted", 0>> =>
                i > 1 /\ log[i - 1] = <<"delete_namespace", "", 0>>
          /\ log[i] = <<"create_namespace", "", 0>> =>
                \/ i > 1 /\ log[i - 1] = <<"ok", "namespace_deleted", 0>>
                \/ i = 2 /\ log[1] = <<"list_namespace", "", 0>>

C18_Witness ==
    /\ phases = <<"Setup">>
    /\ log = << <<"list_namespace", "", 0>>,
                <<"helm ls --all", "", 0>>,
                <<"helm ls --all -q", "", 0>>,
                <<"helm uninstall", "stray-a", 0>>,
                <<"helm uninstall", "stray-b", 0>>,
                <<"wait", "pods_terminated", 0>>,
                <<"ok", "pods_terminated", 0>>,
                <<"delete_namespace", "", 0>>,
                <<"wait", "namespace_deleted", 0>>,
                <<"ok", "namespace_deleted", 0>>,
                <<"create_namespace", "", 0>> >>
    /\ namespace = "active"

\* the log follows the plan: entry by entry the same step, every entry but
\* the last one a success
LogFollows(l, plan) ==
    /\ Len(l) <= Len(plan)
    /\ \A i \in 1..Len(l) :
          /\ l[i][1] = plan[i][1]
          /\ l[i][2] = plan[i][2]
          /\ l[i][3] = 0 \/ i = Len(l)

\* the log of a composite wait and of a deployed wait that succeed
CompositePlan ==
    << <<"wait", "pods_running", 0>>, <<"ok", "pods_running", 0>>,
       <<"wait", "replicaset", 0>>, <<"ok", "replicaset", 0>>,
       <<"wait", "deployment", 0>>, <<"ok", "deployment", 0>> >>

DeployedPlan ==
    << <<"wait", "release_deployed", 0>>, <<"ok", "release_deployed", 0>> >>

InstallPlan ==
    << <<"helm install", ApplicationUnderTest, 0>> >>
       \o CompositePlan \o DeployedPlan
       \o << <<"helm uninstall", ApplicationUnderTest, 0>> >>

\* C19: in Install-Test the steps are the install, the composite wait, the
\* deployed wait on the name of the release under test and the uninstall,
\* in this order, each begun only after the one before succeeded; the
\* uninstall is the tenth entry, after both waits returned success, and a
\* run that failed before it (install failed, a wait timed out or its
\* command failed) has issued no uninstall.
C19_InstallOrder ==
    (phases # <<>> /\ phases[Len(phases)] = "Install-Test") =>
       /\ LogFollows(log, InstallPlan)
       /\ \A i \in 1..Len(log) :
             log[i][1] = "helm uninstall" =>
                /\ i = Len(InstallPlan)
                /\ log[1] = <<"helm install", ApplicationUnderTest, 0>>
                /\ SubSeq(log, 2, 7) = CompositePlan
                /\ SubSeq(log, 8, 9) = DeployedPlan
       /\ (wait = "release_deployed" /\ result = "running") =>
             expected_release_name = ApplicationUnderTest
       /\ (error # "none" /\ Len(log) < Len(InstallPlan)) =>
             /\ pc = <<>>
             /\ \A i \in 1..Len(log) : log[i][1] # "helm uninstall"

C19_Witness ==
    /\ phases = <<"Setup", "Install-Test">>
    /\ log = InstallPlan
    /\ error = "none"
    /\ ApplicationUnderTest \notin releases

UpgradePlan ==
    << <<"helm repo add", "BASELINE", 0>>,
       <<"helm repo update", "", 0>>,
       <<"helm install BASELINE", BaselineRelease, 0>> >>
       \o CompositePlan \o DeployedPlan
       \o << <<"helm ls --deployed", BaselineRelease, 0>>,
             <<"helm upgrade", BaselineRelease, 0>> >>
       \o CompositePlan \o DeployedPlan

\* C20: in Upgrade-Test the steps are the baseline install from the
\* repository, the composite wait, the deployed wait, the upgrade (its
\* listing, then the command), the composite wait and the deployed wait
\* again, each begun only after the one before succeeded; both deployed
\* waits expect the baseline release name, the upgrade names it too; no
\* step is a rollback, and a failure ends the run with nothing after it.
C20_UpgradeOrder ==
    (phases # <<>> /\ phases[Len(phases)] = "Upgrade-Test") =>
       /\ LogFollows(log, UpgradePlan)
       /\ \A i \in 1..Len(log) :
             /\ log[i][1] = "helm upgrade" =>
                   /\ i = 13
                   /\ SubSeq(log, 1, 12) = SubSeq(UpgradePlan, 1, 12)
             /\ log[i][1] # "helm rollback"
       /\ (wait = "release_deployed" /\ result = "running") =>
             expected_release_name = BaselineRelease
       /\ (Len(log) > 13 /\ error = "none" /\ pc # <<"main:585">>) =>
             name = BaselineRelease
       /\ error # "none" =>
             /\ pc = <<>>
             /\ Len(log) > 0
             /\ log[Len(log)][1] # "helm rollback"

C20_Witness ==
    /\ phases = <<"Setup", "Install-Test", "Upgrade-Test">>
    /\ log = UpgradePlan
    /\ error = "none"
    /\ BaselineRelease \in releases

\* the single thread of the program goes on whenever it has a next
\* statement: every command and every API call returns
SpecLive == Spec /\ WF_vars(Next)

\* C21 as stated: a wait that has ended has ended in success or in timeout.
C21_AsStated ==
    (wait # "none" /\ result # "running") =>
        result \in {"success", "timeout"}

\* the counters of a wait stay within their budget
C21_Bounded ==
    /\ wait \in CountdownWaits =>
          /\ evals <= RetriesOf(wait) + 1
          /\ result # "success" =>
                /\ counter \in 0..RetriesOf(wait)
                /\ counter \in {RetriesOf(wait) - sleeps,
                               RetriesOf(wait) - sleeps - 1}
    /\ wait \in ApiWaits =>
          /\ evals <= retries
          /\ evals <= retries + 1
          /\ result # "success" => attempt \in 1..(retries + 1)
    /\ wait # "none" => result \in {"running", "success", "timeout", "error"}
    /\ result = "error" =>
          /\ error \in {"CommandExecutionError", "TypeError"}
          /\ pc = <<>>
    /\ (pc = <<>>) <=> ~ENABLED Next
    /\ pc = <<>> => (error # "none" \/ phases = PhasesOf(args))

\* while a wait runs its counter only moves toward its bound, one at a time
C21_Monotonic ==
    (result = "running" /\ result' = "running") =>
        /\ wait' = wait
        /\ wait \in CountdownWaits =>
              /\ counter' \in {counter, counter - 1}
              /\ counter' = counter - 1 <=> evals' = evals + 1
              /\ counter' = counter <=> sleeps' = sleeps + 1
              /\ evals' + sleeps' = evals + sleeps + 1
        /\ wait \in ApiWaits =>
              /\ attempt' \in {attempt, attempt + 1}
              /\ evals' + sleeps' = evals + sleeps + 1

\* C21 amended: every wait and the whole run terminate. A wait ends in
\* success, in timeout, or in the error raised while its predicate is
\* evaluated (a command that exits non-zero; TypeError for a Running pod
\* whose container statuses are None), after at most budget + 1
\* evaluations (at most retries listings for a scaled-resource wait); a
\* countdown counter stays within 0..initial value and only decreases, by
\* one per sleep; an attempt counter stays within 1..retries + 1 and only
\* increases, by one per failing pass; the run ends, either with every
\* phase done and no error or in a failure.
C21_Terminates ==
    /\ []C21_Bounded
    /\ [][C21_Monotonic]_vars
    /\ (result = "running") ~> (result # "running")
    /\ <>(pc = <<>>)

C21_Witness ==
    /\ phases = <<"Setup", "Install-Test", "Upgrade-Test">>
    /\ wait = "pods_running"
    /\ result = "timeout"
    /\ counter = 0
    /\ evals = CounterPodsStart + 1
    /\ pc = <<>>
    /\ error = "TimeoutError"

\* the waits for readiness, and the statement each one sleeps at
ReadinessWaits == {"pods_running"} \cup ApiWaits

SleepLabels ==
    {"wait_for_all_pods_to_start:388", "wait_for_all_api_resources:452"}

\* C22: an empty listing satisfies a readiness wait. The listing of an
\* evaluation that led to a sleep, to the timeout or to an error of the
\* predicate was not empty; an empty response in a wait still running is
\* the one cleared by the sleep, before the next listing; so a first
\* evaluation that lists nothing ends the wait in success without a sleep
\* (unless the listing command itself failed), and the composite wait
\* succeeds on a namespace that lists no pod, replicaset or deployment.
C22_EmptyListingReady ==
    wait \in ReadinessWaits =>
       /\ Head1 \in SleepLabels => response # <<>>
       /\ result = "timeout" => response # <<>>
       /\ error = "TypeError" => response # <<>>
       /\ (response = <<>> /\ result = "running") =>
             /\ Head1 \notin SleepLabels
             /\ sleeps = evals
       /\ (response = <<>> /\ evals = 1 /\ sleeps = 0) =>
             \/ result = "success"
             \/ result = "error" /\ error = "CommandExecutionError"
       /\ (result = "success" /\ response = <<>>) =>
             /\ Head1 \in {"wait_for_all_resources:355",
                          "wait_for_all_resources:356",
                          "wait_for_all_resources:end"} =>
                   log[Len(log)] = <<"ok", wait, 0>>
             /\ sleeps = evals - 1

C22_Witness ==
    /\ Head1 = "wait_for_all_resources:end"
    /\ wait = "deployment"
    /\ result = "success"
    /\ response = <<>>
    /\ evals = 1 /\ sleeps = 0
    /\ SubSeq(log, Len(log) - 5, Len(log)) = CompositePlan

\* C23: a cleanup that finds no namespace does nothing more (a release
\* check, a release listing, a pod wait, a namespace delete, a deletion
\* wait are reached only with the namespace present), and a cleanup that
\* finds the namespace without releases goes straight to the namespace
\* delete: the release listing of helm_cleanup_namespace is reached only
\* with a release in the namespace, and wait-for-pods-terminated begins
\* only right after an uninstall.
C23_CleanupSkips ==
    /\ Head1 \in {"helm_release_exist_in_namespace:219",
                  "helm_cleanup_namespace:195",
                  "wait_for_all_pods_to_terminate:397",
                  "delete_namespace:333"} => namespace = "active"
    /\ Head1 = "wait_for_namespace_to_be_deleted:340" =>
          namespace = "terminating"
    /\ Head1 = "helm_cleanup_namespace:195" => releases # {}
    /\ (Head1 = "cleanup_target_namespace:488"
          /\ log[Len(log)] = <<"helm ls --all", "", 0>>) => releases = {}
    /\ \A i \in 1..Len(log) :
          log[i] = <<"wait", "pods_terminated", 0>> =>
             i > 1 /\ log[i - 1][1] = "helm uninstall"
====
